---- MODULE Spec2Model ----
(***************************************************************************)
(* Stream manager backend (src/backend/main.py): the FFmpeg supervisor     *)
(* (FfmpegWorker), the per-camera mode state machine with its subscriber   *)
(* fan-out (StreamWorker), the registry (StreamManager) and the TCP        *)
(* command protocol (handle_tcp_client).                                   *)
(***************************************************************************)
EXTENDS Integers, Sequences, FiniteSets, TLC

(***************************************************************************)
(* Bounds of the model.                                                    *)
(***************************************************************************)
\* Loop threads of one supervisor that exist at the same time (start() calls
\* whose thread has not ended yet).
MaxThreads == 2
\* Process handles of one supervisor that are alive or still referenced.
MaxProcs == 3

\* Subscriber queues of one camera that exist at the same time.
MaxSubs == 1
\* Places in one queue where a dropped notification shows (two payloads of
\* the same mode in a row), where the queues are followed until they are full.
MaxGaps == 1
\* Commands are handled while every subscriber has fewer pending events.
MaxPending == 1
\* Threads that call into one StreamWorker at the same time.
NumCallers == 2

\* asyncio.Queue(maxsize=20), line 228
QueueMaxSize == 20

\* Python's None, for self._proc and for a thread's local process reference.
None == 0

Threads == 1..MaxThreads
Pids == 1..MaxProcs
SubIds == 1..MaxSubs
Callers == 1..NumCallers

\* The configured cameras, in the order of config["streams"].
CameraOrder == <<"c1", "c2">>
Cameras == {CameraOrder[i] : i \in 1..Len(CameraOrder)}
\* The supervisor whose interleavings are explored thread step by thread step.
SupCams == {CameraOrder[1]}

VARIABLES
  running,   \* FfmpegWorker._running, per camera
  proc,      \* FfmpegWorker._proc, per camera: a process handle or None
  live,      \* per camera: the spawned processes that have not exited
  lpc,       \* per camera and loop thread: the position in _loop
  lloc,      \* per camera and loop thread: the process object a call holds
  cpc,       \* per camera: the position of the thread that calls stop()
  life,      \* per camera: "new", "started", "stopping", "returned", "raised"
  mode,        \* StreamWorker._mode, per camera
  subscribers, \* StreamWorker._subscribers, per camera: the queues' handles
  queue,       \* per camera and handle: the payloads in the asyncio.Queue
  notified,    \* per camera: the payloads _notify sent during the last operation
  lock,        \* StreamWorker._lock, per camera: 0 or the caller holding it
  serverUp,    \* startup() has run
  conn,        \* the TCP connection: "open" or "closed"
  closedBy,    \* why it was closed: "none", "eof", "read", "handler"
  lastResp,    \* the response to the last line or HTTP call handled
  tpc,         \* per caller thread: the position in set_live/set_standby/toggle
  tcall,       \* per caller thread: the method it called
  startMode,   \* the mode when the callers' round began
  epc,         \* per events connection: the position in api_events
  peer         \* per events connection: the peer is "here" or "gone"

supVars == <<running, proc, live, lpc, lloc, cpc, life>>
appVars == <<mode, subscribers, queue, notified, lock, serverUp, conn, closedBy,
             lastResp, tpc, tcall, startMode, epc, peer>>
vars == <<supVars, appVars>>

(***************************************************************************)
(* FfmpegWorker                                                            *)
(***************************************************************************)
\* FfmpegWorker.__init__ for every camera's supervisor.
SupInit ==
  /\ running = [c \in Cameras |-> FALSE]
  /\ proc = [c \in Cameras |-> None]
  /\ live = [c \in Cameras |-> {}]
  /\ lpc = [c \in Cameras |-> [t \in Threads |-> "none"]]
  /\ lloc = [c \in Cameras |-> [t \in Threads |-> None]]
  /\ cpc = [c \in Cameras |-> "idle"]
  /\ life = [c \in Cameras |-> "new"]

\* alive(): self._proc is not None and self._proc.poll() is None
alive(c) == proc[c] # None /\ proc[c] \in live[c]

\* The handles in use: alive, or referenced by self._proc or by a thread.
UsedPids(c) == live[c] \cup (({proc[c]} \cup {lloc[c][t] : t \in Threads}) \ {None})

\* The handle of a newly spawned process: one that names no other process.
FreshPid(c) == CHOOSE p \in Pids \ UsedPids(c) : \A q \in Pids \ UsedPids(c) : p <= q

SetPc(c, t, to) == lpc' = [lpc EXCEPT ![c][t] = to]
SetLoc(c, t, p) == lloc' = [lloc EXCEPT ![c][t] = p]

\* start(): sets _running and starts a new thread running _loop.
StartWorker(c, t) ==
  /\ lpc[c][t] = "none"
  /\ running' = [running EXCEPT ![c] = TRUE]
  /\ SetPc(c, t, "check")
  /\ life' = [life EXCEPT ![c] = "started"]
  /\ UNCHANGED <<proc, live, lloc, cpc>>

\* line 110: while self._running
LoopCheck(c, t) ==
  /\ lpc[c][t] = "check"
  /\ SetPc(c, t, IF running[c] THEN "popen" ELSE "none")
  /\ UNCHANGED <<running, proc, live, lloc, cpc, life>>

\* line 113, the call: subprocess.Popen(...) spawns the process.
LoopPopenOk(c, t) ==
  /\ lpc[c][t] = "popen"
  /\ Pids \ UsedPids(c) # {}
  /\ live' = [live EXCEPT ![c] = @ \cup {FreshPid(c)}]
  /\ SetLoc(c, t, FreshPid(c))
  /\ SetPc(c, t, "assign")
  /\ UNCHANGED <<running, proc, cpc, life>>

\* line 113 raising FileNotFoundError: handled at line 127.
LoopPopenNotFound(c, t) ==
  /\ lpc[c][t] = "popen"
  /\ SetPc(c, t, "fnf_sleep")
  /\ UNCHANGED <<running, proc, live, lloc, cpc, life>>

\* line 113 raising another exception: handled at line 130.
LoopPopenError(c, t) ==
  /\ lpc[c][t] = "popen"
  /\ SetPc(c, t, "after")
  /\ UNCHANGED <<running, proc, live, lloc, cpc, life>>

\* line 113, the store: self._proc = <the Popen object>
LoopAssign(c, t) ==
  /\ lpc[c][t] = "assign"
  /\ proc' = [proc EXCEPT ![c] = lloc[c][t]]
  /\ SetLoc(c, t, None)
  /\ SetPc(c, t, "inner")
  /\ UNCHANGED <<running, live, cpc, life>>

\* line 118: while self._running (else line 126)
LoopInner(c, t) ==
  /\ lpc[c][t] = "inner"
  /\ SetPc(c, t, IF running[c] THEN "wait_call" ELSE "kill_test1")
  /\ UNCHANGED <<running, proc, live, lloc, cpc, life>>

\* line 120: self._proc.wait(timeout=1) evaluates self._proc; None raises
\* AttributeError, handled at line 130.
LoopWaitCall(c, t) ==
  /\ lpc[c][t] = "wait_call"
  /\ IF proc[c] = None
       THEN SetPc(c, t, "after") /\ UNCHANGED lloc
       ELSE SetPc(c, t, "waiting") /\ SetLoc(c, t, proc[c])
  /\ UNCHANGED <<running, proc, live, cpc, life>>

\* line 120 returning (the process has exited) or raising TimeoutExpired
\* (line 124: continue).
LoopWaitRet(c, t) ==
  /\ lpc[c][t] = "waiting"
  /\ SetPc(c, t, IF lloc[c][t] \in live[c] THEN "inner" ELSE "read_call")
  /\ SetLoc(c, t, None)
  /\ UNCHANGED <<running, proc, live, cpc, life>>

\* line 121: self._proc.stderr.read() evaluates self._proc again.
LoopReadCall(c, t) ==
  /\ lpc[c][t] = "read_call"
  /\ IF proc[c] = None
       THEN SetPc(c, t, "after") /\ UNCHANGED lloc
       ELSE SetPc(c, t, "reading") /\ SetLoc(c, t, proc[c])
  /\ UNCHANGED <<running, proc, live, cpc, life>>

\* line 121 returning: read() reaches end of file once that process has
\* exited; lines 122-123 log and break, line 126 follows.
LoopReadRet(c, t) ==
  /\ lpc[c][t] = "reading"
  /\ lloc[c][t] \notin live[c]
  /\ SetPc(c, t, "kill_test1")
  /\ SetLoc(c, t, None)
  /\ UNCHANGED <<running, proc, live, cpc, life>>

\* _kill, line 101, left operand: self._proc
KillTest1Next(p) == IF p = None THEN "kill_clear" ELSE "kill_test2"

\* _kill, line 101, right operand: self._proc.poll() is None; on None the
\* attribute access raises.
KillTest2Next(p, lv) ==
  IF p = None THEN "raise" ELSE IF p \in lv THEN "kill_term" ELSE "kill_clear"

\* _kill, lines 102-106: terminate(), wait(timeout=5), kill() on timeout.
\* The process is dead afterwards; on None the calls raise.
KillTermNext(p) == IF p = None THEN "raise" ELSE "kill_clear"
KillTermLive(p, lv) == lv \ {p}

\* _kill called at line 126; an exception it raises is handled at line 130.
LoopKillTest1(c, t) ==
  /\ lpc[c][t] = "kill_test1"
  /\ SetPc(c, t, KillTest1Next(proc[c]))
  /\ UNCHANGED <<running, proc, live, lloc, cpc, life>>

LoopKillTest2(c, t) ==
  /\ lpc[c][t] = "kill_test2"
  /\ LET n == KillTest2Next(proc[c], live[c])
     IN SetPc(c, t, IF n = "raise" THEN "after" ELSE n)
  /\ UNCHANGED <<running, proc, live, lloc, cpc, life>>

LoopKillTerm(c, t) ==
  /\ lpc[c][t] = "kill_term"
  /\ LET n == KillTermNext(proc[c])
     IN SetPc(c, t, IF n = "raise" THEN "after" ELSE n)
  /\ live' = [live EXCEPT ![c] = KillTermLive(proc[c], @)]
  /\ UNCHANGED <<running, proc, lloc, cpc, life>>

\* _kill, line 107: self._proc = None
LoopKillClear(c, t) ==
  /\ lpc[c][t] = "kill_clear"
  /\ proc' = [proc EXCEPT ![c] = None]
  /\ SetPc(c, t, "after")
  /\ UNCHANGED <<running, live, lloc, cpc, life>>

\* A loop that ends when the executable is not found.
LoopFnfGivesUp(c, t) ==
  /\ lpc[c][t] = "fnf_sleep"
  /\ SetPc(c, t, "none")
  /\ UNCHANGED <<running, proc, live, lloc, cpc, life>>

\* line 129: time.sleep(10)
LoopFnfSleep(c, t) ==
  /\ lpc[c][t] = "fnf_sleep"
  /\ SetPc(c, t, "after")
  /\ UNCHANGED <<running, proc, live, lloc, cpc, life>>

\* A loop that gives up after the first failure instead of retrying.
LoopAfterGivesUp(c, t) ==
  /\ lpc[c][t] = "after"
  /\ SetPc(c, t, "none")
  /\ UNCHANGED <<running, proc, live, lloc, cpc, life>>

\* line 132: if self._running
LoopAfter(c, t) ==
  /\ lpc[c][t] = "after"
  /\ SetPc(c, t, IF running[c] THEN "sleep" ELSE "check")
  /\ UNCHANGED <<running, proc, live, lloc, cpc, life>>

\* line 133: time.sleep(2)
LoopSleep(c, t) ==
  /\ lpc[c][t] = "sleep"
  /\ SetPc(c, t, "check")
  /\ UNCHANGED <<running, proc, live, lloc, cpc, life>>

\* The supervised process exits on its own.
ProcExit(c) ==
  /\ \E p \in live[c] : live' = [live EXCEPT ![c] = @ \ {p}]
  /\ UNCHANGED <<running, proc, lpc, lloc, cpc, life>>

\* stop(), line 94: self._running = False; line 95 calls _kill.
StopBegin(c) ==
  /\ cpc[c] = "idle"
  /\ running' = [running EXCEPT ![c] = FALSE]
  /\ cpc' = [cpc EXCEPT ![c] = "kill_test1"]
  /\ life' = [life EXCEPT ![c] = "stopping"]
  /\ UNCHANGED <<proc, live, lpc, lloc>>

\* stop() leaving _kill: returning, or raising what _kill raised.
StopLeave(c, n) ==
  /\ cpc' = [cpc EXCEPT ![c] = IF n \in {"raise", "return"} THEN "idle" ELSE n]
  /\ life' = [life EXCEPT ![c] =
       IF n = "raise" THEN "raised" ELSE IF n = "return" THEN "returned" ELSE @]

StopKillTest1(c) ==
  /\ cpc[c] = "kill_test1"
  /\ StopLeave(c, KillTest1Next(proc[c]))
  /\ UNCHANGED <<running, proc, live, lpc, lloc>>

StopKillTest2(c) ==
  /\ cpc[c] = "kill_test2"
  /\ StopLeave(c, KillTest2Next(proc[c], live[c]))
  /\ UNCHANGED <<running, proc, live, lpc, lloc>>

StopKillTerm(c) ==
  /\ cpc[c] = "kill_term"
  /\ StopLeave(c, KillTermNext(proc[c]))
  /\ live' = [live EXCEPT ![c] = KillTermLive(proc[c], @)]
  /\ UNCHANGED <<running, proc, lpc, lloc>>

StopKillClear(c) ==
  /\ cpc[c] = "kill_clear"
  /\ proc' = [proc EXCEPT ![c] = None]
  /\ StopLeave(c, "return")
  /\ UNCHANGED <<running, live, lpc, lloc>>

(***************************************************************************)
(* Text.  A string is a sequence of characters; the model's alphabet is a  *)
(* handful of symbols, each standing for a run of characters without       *)
(* white space, plus the blank " " and the digit "7".                      *)
(***************************************************************************)
IsSpace(ch) == ch = " "

\* str.lower(), symbol by symbol
LowerCh(ch) == IF ch = "LIVE" THEN "live" ELSE IF ch = "FOO" THEN "foo" ELSE ch
Lower(s) == [i \in 1..Len(s) |-> LowerCh(s[i])]

\* str.strip()
RECURSIVE LStrip(_)
LStrip(s) == IF s # <<>> /\ IsSpace(Head(s)) THEN LStrip(Tail(s)) ELSE s
RECURSIVE RStrip(_)
RStrip(s) ==
  IF s # <<>> /\ IsSpace(s[Len(s)]) THEN RStrip(SubSeq(s, 1, Len(s) - 1)) ELSE s
Strip(s) == RStrip(LStrip(s))

\* str.split(): the maximal runs without white space, in order.
RECURSIVE SplitFrom(_, _, _)
SplitFrom(s, cur, acc) ==
  IF s = <<>>
    THEN IF cur = <<>> THEN acc ELSE Append(acc, cur)
    ELSE IF IsSpace(Head(s))
           THEN SplitFrom(Tail(s), <<>>, IF cur = <<>> THEN acc ELSE Append(acc, cur))
           ELSE SplitFrom(Tail(s), Append(cur, Head(s)), acc)
Split(s) == SplitFrom(s, <<>>, <<>>)

(***************************************************************************)
(* Values decoded from structured text (json.loads).                       *)
(***************************************************************************)
JStr(s) == [t |-> "str", s |-> s]
JNum == [t |-> "num", s |-> <<"7">>]
JNull == [t |-> "null", s |-> <<"None">>]
JList == [t |-> "list", s |-> <<"[]">>]
JAbsent == [t |-> "absent", s |-> <<>>]
\* An object with the keys "action" and "stream", each present or absent.
JObj(a, st) == [t |-> "obj", s |-> <<>>, action |-> a, stream |-> st]
JFail == [t |-> "fail", s |-> <<>>]

\* A received line: undecodable bytes, text that is a structured document
\* (val is what json.loads returns for it), or any other text.
BadBytes == [fmt |-> "bytes", text |-> <<>>, val |-> JAbsent]
TextLine(s) == [fmt |-> "text", text |-> s, val |-> JAbsent]
JsonLine(v) == [fmt |-> "json", text |-> <<>>, val |-> v]

\* line 289: json.loads(line).  Text that is only digits is a number.
JsonLoads(line) ==
  IF line.fmt = "json" THEN line.val
  ELSE IF Strip(line.text) = <<"7">> THEN JNum
  ELSE JFail

\* A tokenizer that drops the target.
PlainCmdDropsTarget(text) == JObj(JStr(Split(Strip(text))[1]), JStr(<<>>))

\* lines 291-292: parts = line.split();
\* cmd = {"action": parts[0], "stream": parts[1] if len(parts) > 1 else ""}
PlainCmd(text) ==
  LET parts == Split(Strip(text))
  IN JObj(JStr(parts[1]), JStr(IF Len(parts) > 1 THEN parts[2] ELSE <<>>))

\* lines 288-292: the command a non-blank line is parsed to.
ParseLine(line) ==
  IF JsonLoads(line).t # "fail" THEN JsonLoads(line) ELSE PlainCmd(line.text)

\* dict.get(key, ""): the value, or "" when the key is absent.
GetOr(v) == IF v.t = "absent" THEN JStr(<<>>) ELSE v

\* The text an f-string shows for a value.
Show(v) == v.s

(***************************************************************************)
(* StreamWorker                                                            *)
(***************************************************************************)
\* status(), lines 215-223
Status(c, m) ==
  [id |-> c, name |-> <<"Kamera ", c>>, mode |-> m[c],
   standby_url |-> <<"/hls/", c, "/standby/index.m3u8">>,
   webrtc_src |-> c, standby_ok |-> alive(c)]

\* A _notify that puts the payload into a full queue as well.
NotifyUnbounded(c, w) ==
  [mode |-> w.mode,
   queue |-> [w.queue EXCEPT ![c] =
     [s \in DOMAIN w.queue[c] |->
        IF s \in subscribers[c]
          THEN Append(w.queue[c][s], Status(c, w.mode))
          ELSE w.queue[c][s]]],
   notified |-> [w.notified EXCEPT ![c] = Append(@, Status(c, w.mode))]]

\* _notify(), lines 235-241: put_nowait into every subscriber's queue; a
\* full queue raises QueueFull, which is passed over.
Notify(c, w) ==
  [mode |-> w.mode,
   queue |-> [w.queue EXCEPT ![c] =
     [s \in DOMAIN w.queue[c] |->
        IF s \in subscribers[c] /\ Len(w.queue[c][s]) < QueueMaxSize
          THEN Append(w.queue[c][s], Status(c, w.mode))
          ELSE w.queue[c][s]]],
   notified |-> [w.notified EXCEPT ![c] = Append(@, Status(c, w.mode))]]

\* A set_live that notifies without testing the mode.
SetLiveAlwaysNotifies(c, w) == Notify(c, [w EXCEPT !.mode[c] = "live"])

\* The body of set_live under the lock, lines 197-200.
SetLive(c, w) ==
  IF w.mode[c] # "live"
    THEN Notify(c, [w EXCEPT !.mode[c] = "live"])
    ELSE w

\* A set_standby that notifies without testing the mode.
SetStandbyAlwaysNotifies(c, w) == Notify(c, [w EXCEPT !.mode[c] = "standby"])

\* The body of set_standby under the lock, lines 204-207.
SetStandby(c, w) ==
  IF w.mode[c] # "standby"
    THEN Notify(c, [w EXCEPT !.mode[c] = "standby"])
    ELSE w

\* A toggle that always switches to live.
ToggleAlwaysLive(c, w) == SetLive(c, w)

\* toggle(), lines 209-213, run without another thread in between.
Toggle(c, w) ==
  IF w.mode[c] = "standby" THEN SetLive(c, w) ELSE SetStandby(c, w)

\* lines 310-312 for one target
ApplyAction(action, c, w) ==
  IF action = <<"live">> THEN SetLive(c, w)
  ELSE IF action = <<"standby">> THEN SetStandby(c, w)
  ELSE IF action = <<"toggle">> THEN Toggle(c, w)
  ELSE w

\* A loop that stops after the first target.
ApplyAllFirstOnly(action, targets, w) ==
  IF targets = <<>> THEN w ELSE ApplyAction(action, Head(targets), w)

\* lines 309-312: for w in targets
RECURSIVE ApplyAll(_, _, _)
ApplyAll(action, targets, w) ==
  IF targets = <<>> THEN w
  ELSE ApplyAll(action, Tail(targets), ApplyAction(action, Head(targets), w))

(***************************************************************************)
(* StreamManager and the TCP command server                                *)
(***************************************************************************)
\* A lookup that falls back to the first camera for an unknown id.
ManagerGetDefaultsToFirst(v) ==
  IF v.t = "list" THEN "raise"
  ELSE IF v.t = "str" /\ \E c \in Cameras : v.s = <<c>>
    THEN CHOOSE c \in Cameras : v.s = <<c>>
  ELSE CameraOrder[1]

\* StreamManager.get(), lines 261-262: the camera of that id, or none.  A
\* key that is not hashable raises TypeError.
ManagerGet(v) ==
  IF v.t = "list" THEN "raise"
  ELSE IF v.t = "str" /\ \E c \in Cameras : v.s = <<c>>
    THEN CHOOSE c \in Cameras : v.s = <<c>>
  ELSE "nocam"

\* A listing in the reverse of the registration order.
AllStatusReversed(m) ==
  [i \in 1..Len(CameraOrder) |-> Status(CameraOrder[Len(CameraOrder) + 1 - i], m)]

\* all_status(), lines 264-265
AllStatus(m) == [i \in 1..Len(CameraOrder) |-> Status(CameraOrder[i], m)]

NoResp == [kind |-> "none", streams |-> <<>>, error |-> <<>>]
StreamsResp(sts) == [kind |-> "streams", streams |-> sts, error |-> <<>>]
ErrorResp(msg) == [kind |-> "error", streams |-> <<>>, error |-> msg]

\* The handler left by an exception: line 322 logs, line 325 closes.
Crash(w) == [w |-> w, resp |-> NoResp, open |-> FALSE]
Reply(w, r) == [w |-> w, resp |-> r, open |-> TRUE]

IsWild(v) == v.t = "str" /\ (v.s = <<"*">> \/ v.s = <<>>)

\* A mutating action that is applied to every camera whatever the target.
MutateEveryCamera(action, stream_id, w) ==
  LET w2 == ApplyAll(action, CameraOrder, w)
  IN Reply(w2, StreamsResp(AllStatus(w2.mode)))

\* lines 300-313: a mutating action
Mutate(action, stream_id, w) ==
  IF IsWild(stream_id)
    THEN LET w2 == ApplyAll(action, CameraOrder, w)
         IN Reply(w2, StreamsResp(AllStatus(w2.mode)))
  ELSE IF ManagerGet(stream_id) = "raise" THEN Crash(w)
  ELSE IF ManagerGet(stream_id) = "nocam"
    THEN Reply(w, ErrorResp(<<"unknown stream: ">> \o Show(stream_id)))
  ELSE LET c == ManagerGet(stream_id)
           w2 == ApplyAll(action, <<c>>, w)
       IN Reply(w2, StreamsResp(<<Status(c, w2.mode)>>))

\* A dispatch that answers an unknown action with the status listing.
DispatchUnknownAsStatus(cmd, w) ==
  IF cmd.t # "obj" THEN Crash(w)
  ELSE IF GetOr(cmd.action).t # "str" THEN Crash(w)
  ELSE LET action == Lower(GetOr(cmd.action).s)
           stream_id == GetOr(cmd.stream)
       IN IF action \in {<<"live">>, <<"standby">>, <<"toggle">>}
            THEN Mutate(action, stream_id, w)
          ELSE Reply(w, StreamsResp(AllStatus(w.mode)))

\* lines 294-315: dispatch of a parsed command
Dispatch(cmd, w) ==
  IF cmd.t # "obj" THEN Crash(w)
  ELSE IF GetOr(cmd.action).t # "str" THEN Crash(w)
  ELSE LET action == Lower(GetOr(cmd.action).s)
           stream_id == GetOr(cmd.stream)
       IN IF action = <<"status">> THEN Reply(w, StreamsResp(AllStatus(w.mode)))
          ELSE IF action \in {<<"live">>, <<"standby">>, <<"toggle">>}
            THEN Mutate(action, stream_id, w)
          ELSE Reply(w, ErrorResp(<<"unknown action: ">> \o action))

\* lines 279-318: one pass of the loop for a received line
DoLine(line, w) ==
  IF line.fmt = "bytes" THEN Crash(w)
  ELSE IF line.fmt = "text" /\ Strip(line.text) = <<>> THEN Reply(w, NoResp)
  ELSE Dispatch(ParseLine(line), w)

(***************************************************************************)
(* The lines a client sends.                                               *)
(***************************************************************************)
MutatingActions == {<<"live">>, <<"standby">>, <<"toggle">>}
\* Action names: the four actions, an upper-case spelling, an unknown name,
\* a name that is a number, and the empty name.
ActionNames == MutatingActions \cup {<<"status">>, <<"LIVE">>, <<"foo">>, <<"7">>, <<>>}
\* Targets: omitted, the wildcard, the registered ids, an unregistered id
\* and an id with white space in it.
TargetNames ==
  {<<>>, <<"*">>, <<"ghost">>, <<"c1", " ", "x">>} \cup {<<c>> : c \in Cameras}

\* The plaintext line "<action> <target>"
PlainLine(a, t) == TextLine(a \o <<" ">> \o t)
\* The structured line {"action": <action>, "stream": <target>}
StructLine(a, t) == JsonLine(JObj(JStr(a), JStr(t)))

\* Structured text that is not a command object with string fields.
MalformedLines ==
  {JsonLine(JNum), JsonLine(JNull), JsonLine(JList), JsonLine(JStr(<<"live">>)),
   JsonLine(JObj(JNum, JStr(<<"c1">>))),
   JsonLine(JObj(JAbsent, JStr(<<"c1">>))),
   JsonLine(JObj(JStr(<<"status">>), JAbsent)),
   JsonLine(JObj(JStr(<<"live">>), JAbsent)),
   JsonLine(JObj(JStr(<<"live">>), JList)),
   JsonLine(JObj(JStr(<<"live">>), JNum)),
   JsonLine(JObj(JStr(<<"toggle">>), JNull)),
   BadBytes}

BlankLines == {TextLine(<<>>), TextLine(<<" ">>)}

\* Every command line of the two formats.
CommandLines ==
  {PlainLine(a, t) : a \in ActionNames, t \in TargetNames}
    \cup {StructLine(a, t) : a \in ActionNames, t \in TargetNames}

\* The lines the modelled client sends.
Lines ==
  {PlainLine(a, t) : a \in MutatingActions, t \in TargetNames}
    \cup {StructLine(a, t) : a \in MutatingActions, t \in {<<>>, <<"c1">>, <<"ghost">>}}
    \cup {PlainLine(a, <<"c2">>) : a \in ActionNames}
    \cup {StructLine(a, <<"*">>) : a \in ActionNames}
    \cup MalformedLines \cup BlankLines

(***************************************************************************)
(* The application, as it runs: startup() starts the supervisors and the   *)
(* TCP server; commands and HTTP calls are handled one at a time on the    *)
(* event loop.  The supervisors' threads are followed step by step in      *)
(* SpecSup and SpecLife; here they are started and take no step.           *)
(***************************************************************************)
NoNotes == [c \in Cameras |-> <<>>]

\* StreamWorker.__init__ (lines 178-180) and the server before startup.
AppInit ==
  /\ mode = [c \in Cameras |-> "standby"]
  /\ subscribers = [c \in Cameras |-> {}]
  /\ queue = [c \in Cameras |-> [s \in SubIds |-> <<>>]]
  /\ notified = NoNotes
  /\ lock = [c \in Cameras |-> 0]
  /\ serverUp = FALSE
  /\ conn = "closed"
  /\ closedBy = "none"
  /\ lastResp = NoResp
  /\ tpc = [k \in Callers |-> "idle"]
  /\ tcall = [k \in Callers |-> <<>>]
  /\ startMode = "standby"
  /\ epc = [s \in SubIds |-> "none"]
  /\ peer = [s \in SubIds |-> "here"]

Init == SupInit /\ AppInit

\* The worker state a handler starts from.
Now == [mode |-> mode, queue |-> queue, notified |-> NoNotes]

\* No subscriber is more than MaxPending events behind.
CaughtUp ==
  \A c \in Cameras : \A s \in DOMAIN queue[c] : Len(queue[c][s]) < MaxPending

\* startup(), lines 540-542: start_all() and the TCP server.
Startup ==
  /\ ~serverUp
  /\ serverUp' = TRUE
  /\ running' = [c \in Cameras |-> TRUE]
  /\ lpc' = [c \in Cameras |-> [t \in Threads |-> IF t = 1 THEN "check" ELSE "none"]]
  /\ life' = [c \in Cameras |-> "started"]
  /\ UNCHANGED <<proc, live, lloc, cpc>>
  /\ UNCHANGED <<mode, subscribers, queue, notified, lock, conn, closedBy, lastResp, tpc, tcall, startMode, epc, peer>>

\* asyncio.start_server accepts a connection: handle_tcp_client starts.
Accept ==
  /\ serverUp /\ conn = "closed"
  /\ conn' = "open"
  /\ closedBy' = "none"
  /\ UNCHANGED <<mode, subscribers, queue, notified, lock, serverUp, lastResp, tpc, tcall, startMode, epc, peer>>
  /\ UNCHANGED supVars

\* lines 279-281: readline() returns b"" at the peer's end of file.
PeerEof ==
  /\ conn = "open"
  /\ conn' = "closed"
  /\ closedBy' = "eof"
  /\ UNCHANGED <<mode, subscribers, queue, notified, lock, serverUp, lastResp, tpc, tcall, startMode, epc, peer>>
  /\ UNCHANGED supVars

\* line 279 raising (the connection is reset): lines 322-325.
ReadFails ==
  /\ conn = "open"
  /\ conn' = "closed"
  /\ closedBy' = "read"
  /\ UNCHANGED <<mode, subscribers, queue, notified, lock, serverUp, lastResp, tpc, tcall, startMode, epc, peer>>
  /\ UNCHANGED supVars

\* lines 279-318 for one received line.
HandleLine(line) ==
  /\ conn = "open" /\ CaughtUp
  /\ LET r == DoLine(line, Now)
     IN /\ mode' = r.w.mode
        /\ queue' = r.w.queue
        /\ notified' = r.w.notified
        /\ lastResp' = r.resp
        /\ conn' = IF r.open THEN "open" ELSE "closed"
        /\ closedBy' = IF r.open THEN closedBy ELSE "handler"
  /\ UNCHANGED <<subscribers, lock, serverUp, tpc, tcall, startMode, epc, peer>>
  /\ UNCHANGED supVars

\* api_live, api_standby, api_toggle (lines 489-505) for a registered id:
\* the call on the worker, then its status().
ApiCall(c, act) ==
  /\ serverUp /\ CaughtUp
  /\ LET w2 == ApplyAction(act, c, Now)
     IN /\ mode' = w2.mode
        /\ queue' = w2.queue
        /\ notified' = w2.notified
        /\ lastResp' = [kind |-> "status", streams |-> <<Status(c, w2.mode)>>,
                        error |-> <<>>]
  /\ UNCHANGED <<subscribers, lock, serverUp, conn, closedBy, tpc, tcall, startMode, epc, peer>>
  /\ UNCHANGED supVars

\* api_events, line 514: subscribe() adds a new empty queue (lines 227-230).
Subscribe(c) ==
  /\ serverUp
  /\ \E s \in DOMAIN queue[c] \ subscribers[c] :
       /\ subscribers' = [subscribers EXCEPT ![c] = @ \cup {s}]
       /\ queue' = [queue EXCEPT ![c][s] = <<>>]
  /\ UNCHANGED <<mode, notified, lock, serverUp, conn, closedBy, lastResp, tpc, tcall, startMode, epc, peer>>
  /\ UNCHANGED supVars

\* api_events, line 528: unsubscribe() discards the queue (lines 232-233).
Unsubscribe(c, s) ==
  /\ s \in subscribers[c]
  /\ subscribers' = [subscribers EXCEPT ![c] = @ \ {s}]
  /\ queue' = [queue EXCEPT ![c][s] = <<>>]
  /\ UNCHANGED <<mode, notified, lock, serverUp, conn, closedBy, lastResp, tpc, tcall, startMode, epc, peer>>
  /\ UNCHANGED supVars

\* api_events, line 523: q.get() takes the oldest payload.
GetEvent(c, s) ==
  /\ s \in subscribers[c]
  /\ queue[c][s] # <<>>
  /\ queue' = [queue EXCEPT ![c][s] = Tail(@)]
  /\ UNCHANGED <<mode, subscribers, notified, lock, serverUp, conn, closedBy, lastResp, tpc, tcall, startMode, epc, peer>>
  /\ UNCHANGED supVars

Next ==
  \/ Startup
  \/ Accept
  \/ PeerEof
  \/ ReadFails
  \/ \E line \in Lines : HandleLine(line)
  \/ \E c \in Cameras : \E act \in MutatingActions : ApiCall(c, act)
  \/ \E c \in Cameras : Subscribe(c)
  \/ \E c \in Cameras : \E s \in SubIds : Unsubscribe(c, s)
  \/ \E c \in Cameras : \E s \in SubIds : GetEvent(c, s)

Spec == Init /\ [][Next]_vars

(***************************************************************************)
(* StreamWorker called from several threads at once: every caller makes    *)
(* one call on the same camera; when all calls have returned, a new round  *)
(* starts from the mode they left.                                         *)
(***************************************************************************)
ThreadCam == CameraOrder[1]

\* The worker state the callers share; notifications add up over a round.
Shared == [mode |-> mode, queue |-> queue, notified |-> notified]

\* A caller enters set_live, set_standby or toggle.
CallEnter(k, act) ==
  /\ tpc[k] = "idle"
  /\ tcall' = [tcall EXCEPT ![k] = act]
  /\ tpc' = [tpc EXCEPT ![k] =
       IF act = <<"toggle">> THEN "toggle"
       ELSE IF act = <<"live">> THEN "lock_live" ELSE "lock_standby"]
  /\ UNCHANGED <<mode, subscribers, queue, notified, lock, serverUp, conn, closedBy,
                 lastResp, startMode, epc, peer>>
  /\ UNCHANGED supVars

\* toggle(), line 210: the test of self._mode, made without the lock.
ToggleRead(k) ==
  /\ tpc[k] = "toggle"
  /\ tpc' = [tpc EXCEPT ![k] =
       IF mode[ThreadCam] = "standby" THEN "lock_live" ELSE "lock_standby"]
  /\ UNCHANGED <<mode, subscribers, queue, notified, lock, serverUp, conn, closedBy,
                 lastResp, tcall, startMode, epc, peer>>
  /\ UNCHANGED supVars

\* lines 196 and 203: with self._lock, entered
LockAcquire(k) ==
  /\ tpc[k] \in {"lock_live", "lock_standby"}
  /\ lock[ThreadCam] = 0
  /\ lock' = [lock EXCEPT ![ThreadCam] = k]
  /\ tpc' = [tpc EXCEPT ![k] = IF @ = "lock_live" THEN "in_live" ELSE "in_standby"]
  /\ UNCHANGED <<mode, subscribers, queue, notified, serverUp, conn, closedBy,
                 lastResp, tcall, startMode, epc, peer>>
  /\ UNCHANGED supVars

\* lines 197-200 and 204-207, with the lock held
LockedBody(k) ==
  /\ tpc[k] \in {"in_live", "in_standby"}
  /\ LET w2 == IF tpc[k] = "in_live" THEN SetLive(ThreadCam, Shared)
               ELSE SetStandby(ThreadCam, Shared)
     IN /\ mode' = w2.mode
        /\ queue' = w2.queue
        /\ notified' = w2.notified
  /\ tpc' = [tpc EXCEPT ![k] = "unlock"]
  /\ UNCHANGED <<subscribers, lock, serverUp, conn, closedBy, lastResp, tcall, startMode, epc, peer>>
  /\ UNCHANGED supVars

\* The with block is left: the lock is released and the call returns.
LockRelease(k) ==
  /\ tpc[k] = "unlock"
  /\ lock' = [lock EXCEPT ![ThreadCam] = 0]
  /\ tpc' = [tpc EXCEPT ![k] = "done"]
  /\ UNCHANGED <<mode, subscribers, queue, notified, serverUp, conn, closedBy,
                 lastResp, tcall, startMode, epc, peer>>
  /\ UNCHANGED supVars

\* No call is in progress, and at least one has been made.
AllReturned ==
  /\ \A k \in Callers : tpc[k] \in {"idle", "done"}
  /\ \E k \in Callers : tpc[k] = "done"

\* The next round of calls.
NewRound ==
  /\ AllReturned
  /\ tpc' = [k \in Callers |-> "idle"]
  /\ tcall' = [k \in Callers |-> <<>>]
  /\ startMode' = mode[ThreadCam]
  /\ notified' = NoNotes
  /\ UNCHANGED <<mode, subscribers, queue, lock, serverUp, conn, closedBy, lastResp, epc, peer>>
  /\ UNCHANGED supVars

ThreadsNext ==
  \/ \E k \in Callers : \E act \in MutatingActions : CallEnter(k, act)
  \/ \E k \in Callers : ToggleRead(k)
  \/ \E k \in Callers : LockAcquire(k)
  \/ \E k \in Callers : LockedBody(k)
  \/ \E k \in Callers : LockRelease(k)
  \/ NewRound

SpecThreads == Init /\ [][ThreadsNext]_vars

\* The callers that made a call this round, in every order.
Made == {k \in Callers : tpc[k] = "done"}
Orders(S) == {o \in [1..Cardinality(S) -> S] : \A i, j \in 1..Cardinality(S) : o[i] = o[j] => i = j}

\* The calls of an order run one after the other from the round's start.
RECURSIVE RunInOrder(_, _, _)
RunInOrder(o, i, w) ==
  IF i > Len(o) THEN w
  ELSE RunInOrder(o, i + 1, ApplyAction(tcall[o[i]], ThreadCam, w))

RoundStart ==
  [mode |-> [mode EXCEPT ![ThreadCam] = startMode], queue |-> queue,
   notified |-> NoNotes]

\* C3: when concurrent set_live, set_standby and toggle calls on a camera
\* have all returned, the mode and the number of notifications are those of
\* some sequential execution of the same calls.
C3_Serialized ==
  AllReturned =>
    \E o \in Orders(Made) :
      LET w == RunInOrder(o, 1, RoundStart)
      IN /\ w.mode[ThreadCam] = mode[ThreadCam]
         /\ Len(w.notified[ThreadCam]) = Len(notified[ThreadCam])

\* One step of a thread running _loop.
LoopStep(c, t) ==
  \/ LoopCheck(c, t)
  \/ LoopPopenOk(c, t)
  \/ LoopPopenNotFound(c, t)
  \/ LoopPopenError(c, t)
  \/ LoopAssign(c, t)
  \/ LoopInner(c, t)
  \/ LoopWaitCall(c, t)
  \/ LoopWaitRet(c, t)
  \/ LoopReadCall(c, t)
  \/ LoopReadRet(c, t)
  \/ LoopKillTest1(c, t)
  \/ LoopKillTest2(c, t)
  \/ LoopKillTerm(c, t)
  \/ LoopKillClear(c, t)
  \/ LoopFnfSleep(c, t)
  \/ LoopAfter(c, t)
  \/ LoopSleep(c, t)

\* One step of the thread inside stop().
StopStep(c) ==
  \/ StopKillTest1(c)
  \/ StopKillTest2(c)
  \/ StopKillTerm(c)
  \/ StopKillClear(c)

\* start() and stop() are called by one controlling thread, in any order.
SupStart(c) ==
  /\ cpc[c] = "idle"
  /\ \E t \in Threads : StartWorker(c, t)

SupNext ==
  /\ \E c \in SupCams :
       \/ SupStart(c)
       \/ StopBegin(c)
       \/ StopStep(c)
       \/ \E t \in Threads : LoopStep(c, t)
       \/ ProcExit(c)
  /\ UNCHANGED appVars

SpecSup == Init /\ [][SupNext]_vars

(***************************************************************************)
(* The lifecycle of the application: startup() starts each supervisor      *)
(* once (line 541), shutdown() stops it once (line 546).  The loop thread  *)
(* is scheduled fairly, and the executable can be launched: a spawn that   *)
(* is attempted again and again eventually succeeds, and the launched   *)
(* process does not every time exit before line 113 has stored its handle. *)
(***************************************************************************)
LifeStart(c) ==
  /\ life[c] = "new"
  /\ SupStart(c)

LifeStop(c) ==
  /\ life[c] = "started"
  /\ StopBegin(c)

LifeNext ==
  /\ \E c \in SupCams :
       \/ LifeStart(c)
       \/ LifeStop(c)
       \/ StopStep(c)
       \/ \E t \in Threads : LoopStep(c, t)
       \/ ProcExit(c)
  /\ UNCHANGED appVars

LifeFair ==
  \A c \in SupCams :
    /\ WF_supVars(StopStep(c))
    /\ \A t \in Threads :
         /\ WF_supVars(LoopStep(c, t))
         /\ SF_supVars(LoopPopenOk(c, t))
         /\ SF_supVars(LoopAssign(c, t) /\ lloc[c][t] \in live[c])

SpecLife == Init /\ [][LifeNext]_vars /\ LifeFair

\* C5: once stop() has returned, no process spawned by the supervisor is
\* alive.
C5_StopLeavesNoProcess ==
  \A c \in SupCams : life[c] = "returned" => live[c] = {}

\* C6: at most one spawned process of a camera's supervisor is alive.
C6_AtMostOneProcess ==
  \A c \in SupCams : Cardinality(live[c]) <= 1

\* C7: while the supervisor is started and not stopped, alive() is false once
\* its process has exited, and a new process is eventually spawned and
\* assigned, so that alive() is true again (or stop() is called).
C7_RestartLiveness ==
  /\ [](\A c \in SupCams : (life[c] = "started" /\ live[c] = {}) => ~alive(c))
  /\ \A c \in SupCams :
       (life[c] = "started" /\ ~alive(c)) ~> (alive(c) \/ life[c] # "started")

\* The process has exited (wait() returned at line 120), the supervisor is
\* still running and alive() is false.
C7_Witness ==
  \E c \in SupCams : \E t \in Threads :
    /\ life[c] = "started"
    /\ lpc[c][t] = "read_call"
    /\ proc[c] # None
    /\ ~alive(c)

(***************************************************************************)
(* The command protocol and the mode state machine (Spec).                 *)
(***************************************************************************)
\* The transition table of section 4.2.
Table(m, act) ==
  IF act = <<"live">> THEN "live"
  ELSE IF act = <<"standby">> THEN "standby"
  ELSE IF m = "standby" THEN "live" ELSE "standby"

IsBlank(line) == line.fmt = "text" /\ Strip(line.text) = <<>>
Fresh(w) == [w EXCEPT !.notified = NoNotes]

\* C1: the mode is standby before any command, is always standby or live,
\* and a set_live, set_standby or toggle call that runs alone leaves the
\* camera in the mode the table gives for (current mode, action), the other
\* cameras as they were.
C1_ModeIsFunctionOfModeAndAction ==
  /\ \A c \in Cameras : mode[c] \in {"standby", "live"}
  /\ ~serverUp => \A c \in Cameras : mode[c] = "standby"
  /\ \A c \in Cameras : \A act \in MutatingActions :
       ApplyAction(act, c, Now).mode = [mode EXCEPT ![c] = Table(mode[c], act)]

\* An HTTP call has been answered and has left a camera live.
C1_Witness ==
  /\ lastResp.kind = "status"
  /\ \E c \in Cameras : mode[c] = "live" /\ notified[c] # <<>>

\* C2: a call that changes the mode sends exactly one notification, carrying
\* the new mode, to every subscriber of the camera whose queue has room; a
\* call that leaves the mode unchanged sends none; and a set_live or
\* set_standby command that is repeated is answered with the camera's
\* current status and notifies nobody.
C2_OneNotificationPerChange ==
  /\ \A c \in Cameras : \A act \in MutatingActions :
       LET w2 == ApplyAction(act, c, Now)
       IN IF w2.mode[c] # mode[c]
            THEN /\ Len(w2.notified[c]) = 1
                 /\ w2.notified[c][1].id = c
                 /\ w2.notified[c][1].mode = w2.mode[c]
                 /\ \A d \in Cameras \ {c} : w2.notified[d] = <<>>
                 /\ \A d \in Cameras : \A s \in SubIds :
                      w2.queue[d][s] =
                        IF d = c /\ s \in subscribers[c]
                                 /\ Len(queue[c][s]) < QueueMaxSize
                          THEN Append(queue[c][s], w2.notified[c][1])
                          ELSE queue[d][s]
            ELSE w2.notified = NoNotes /\ w2.queue = queue
  /\ \A c \in Cameras : \A act \in {<<"live">>, <<"standby">>} :
       \A line \in {PlainLine(act, <<c>>), StructLine(act, <<c>>)} :
         LET r1 == DoLine(line, Now)
             r2 == DoLine(line, Fresh(r1.w))
         IN /\ r2.open
            /\ r2.resp.kind = "streams"
            /\ Len(r2.resp.streams) = 1
            /\ r2.resp.streams[1].id = c
            /\ r2.resp.streams[1].mode = r1.w.mode[c]
            /\ r2.resp.streams[1].mode = act[1]
            /\ r2.resp.streams[1].standby_ok = alive(c)
            /\ r2.w.mode = r1.w.mode
            /\ r2.w.queue = r1.w.queue
            /\ r2.w.notified = NoNotes

\* A command changed a camera's mode and its subscriber holds the payload.
C2_Witness ==
  /\ lastResp.kind = "streams"
  /\ \E c \in Cameras : \E s \in subscribers[c] :
       /\ Len(notified[c]) = 1
       /\ queue[c][s] # <<>>
       /\ queue[c][s][Len(queue[c][s])] = notified[c][1]

\* The lines of the input set that the handler does not answer.
UnansweredLines ==
  {line \in Lines \cup CommandLines : ~IsBlank(line) /\ ~DoLine(line, Now).open}

\* C4: every non-blank line is answered with one response line and leaves
\* the connection open, so that the connection is closed only by the peer's
\* end of file or a failed read, never by the handler on a line it received.
C4_ClosedOnlyByPeer == closedBy \in {"none", "eof", "read"}

\* The targets that are not empty, not "*" and no registered id.
UnknownTargets == {t \in TargetNames : t \notin {<<>>, <<"*">>} \cup {<<c>> : c \in Cameras}}
NoSpace(s) == \A i \in 1..Len(s) : ~IsSpace(s[i])

\* The lines whose target is t, for a mutating action a.
LinesNaming(a, t) ==
  {StructLine(a, t)} \cup (IF NoSpace(t) THEN {PlainLine(a, t)} ELSE {})

\* C8: a mutating command whose target is an unknown id is answered with
\* "unknown stream: <target>", and changes no mode, no queue, and notifies
\* nobody.
C8_UnknownTargetRejected ==
  \A a \in MutatingActions \cup {<<"LIVE">>} : \A t \in UnknownTargets :
    \A line \in LinesNaming(a, t) :
      LET r == DoLine(line, Now)
      IN /\ r.open
         /\ r.resp = ErrorResp(<<"unknown stream: ">> \o t)
         /\ r.w.mode = mode
         /\ r.w.queue = queue
         /\ r.w.notified = NoNotes

\* The error for the unknown id was written while a live camera has a
\* subscriber.
C8_Witness ==
  /\ conn = "open"
  /\ lastResp = ErrorResp(<<"unknown stream: ", "ghost">>)
  /\ notified = NoNotes
  /\ \E c \in Cameras : mode[c] = "live" /\ subscribers[c] # {}

\* C9: a mutating command with target "*" or without a target moves every
\* camera from its own mode as the table says, and the response lists all
\* cameras, in registration order, with the resulting modes.
C9_WildcardAppliesToAll ==
  \A a \in MutatingActions : \A t \in {<<"*">>, <<>>} :
    \A line \in {PlainLine(a, t), StructLine(a, t), JsonLine(JObj(JStr(a), JAbsent))} :
      LET r == DoLine(line, Now)
      IN /\ r.open
         /\ \A c \in Cameras : r.w.mode[c] = Table(mode[c], a)
         /\ r.resp.kind = "streams"
         /\ Len(r.resp.streams) = Len(CameraOrder)
         /\ \A i \in 1..Len(CameraOrder) :
              /\ r.resp.streams[i].id = CameraOrder[i]
              /\ r.resp.streams[i].mode = Table(mode[CameraOrder[i]], a)

\* A wildcard toggle has flipped two cameras that were in different modes.
C9_Witness ==
  /\ lastResp.kind = "streams"
  /\ Len(lastResp.streams) = Len(CameraOrder)
  /\ \A c \in Cameras : Len(notified[c]) = 1
  /\ mode[CameraOrder[1]] # mode[CameraOrder[2]]

\* The command a line is parsed to; a blank line is parsed to none.
Parsed(line) == IF IsBlank(line) \/ line.fmt = "bytes" THEN JFail ELSE ParseLine(line)

SameInBothFormats(a, t) ==
  /\ Parsed(PlainLine(a, t)) = Parsed(StructLine(a, t))
  /\ DoLine(PlainLine(a, t), Now) = DoLine(StructLine(a, t), Now)

\* C10, as claimed: on an open connection, for every action and target the
\* plaintext line and the structured line are parsed to the same command and
\* have the same effect.
C10_SameForEveryActionAndTarget ==
  conn = "open" => \A a \in ActionNames : \A t \in TargetNames : SameInBothFormats(a, t)

\* C10, amended: the same, for a non-empty action and a target without white
\* space whose plaintext line is not itself structured text.
C10_SameForPlainTokens ==
  conn = "open" => \A a \in ActionNames : \A t \in TargetNames :
    (a # <<>> /\ NoSpace(a) /\ NoSpace(t) /\ JsonLoads(PlainLine(a, t)).t = "fail")
      => SameInBothFormats(a, t)

\* A command for one camera has been answered and has made it live.
C10_Witness ==
  /\ conn = "open"
  /\ lastResp.kind = "streams"
  /\ Len(lastResp.streams) = 1
  /\ lastResp.streams[1].mode = "live"
  /\ lastResp = DoLine(PlainLine(<<"live">>, <<lastResp.streams[1].id>>), Fresh(Now)).resp
  /\ lastResp = DoLine(StructLine(<<"LIVE">>, <<lastResp.streams[1].id>>), Fresh(Now)).resp

\* Action names that are none of status, live, standby, toggle in any case.
UnknownActions == {<<"foo">>, <<"FOO">>, <<"7">>, <<>>}
\* Values of the "stream" key: any target name, a list, a number, no key.
StreamValues == {JStr(t) : t \in TargetNames} \cup {JList, JNum, JAbsent}

\* The command lines with action a: structured with every stream value, and
\* plaintext with every target where the text is a plaintext command.
LinesWithAction(a) ==
  {JsonLine(JObj(JStr(a), v)) : v \in StreamValues}
    \cup {PlainLine(a, t) : t \in {u \in TargetNames :
            a # <<>> /\ NoSpace(a) /\ JsonLoads(PlainLine(a, u)).t = "fail"}}

\* What an unknown-action command does, given the name the error shows.
UnknownActionAnswered(a, shown) ==
  \A line \in LinesWithAction(a) :
    LET r == DoLine(line, Now)
    IN /\ r.open
       /\ r.resp = ErrorResp(<<"unknown action: ">> \o shown)
       /\ r.w.mode = mode
       /\ r.w.queue = queue
       /\ r.w.notified = NoNotes

\* C12, as claimed: on an open connection a command with an unknown action is
\* answered with "unknown action: <action>", the action as it was sent,
\* whatever its target, and changes no mode and notifies nobody.
C12_UnknownActionNamedAsSent ==
  conn = "open" => \A a \in UnknownActions : UnknownActionAnswered(a, a)

\* C12, amended: the same, the error naming the action in lower case.
C12_UnknownActionNamedLowerCase ==
  conn = "open" => \A a \in UnknownActions : UnknownActionAnswered(a, Lower(a))

\* The error for the unknown action was written, the connection is open,
\* and a live camera has a subscriber that received nothing for it.
C12_Witness ==
  /\ conn = "open"
  /\ lastResp = ErrorResp(<<"unknown action: ", "foo">>)
  /\ notified = NoNotes
  /\ \E c \in Cameras : mode[c] = "live" /\ subscribers[c] # {}

\* C13: a status command, whatever its target (absent, "*", a registered or
\* unregistered id, or no string at all), is answered with the status of
\* every camera in registration order, changes no mode and notifies nobody.
C13_StatusIgnoresTarget ==
  \A line \in LinesWithAction(<<"status">>) :
    LET r == DoLine(line, Now)
    IN /\ r.open
       /\ r.resp.kind = "streams"
       /\ Len(r.resp.streams) = Len(CameraOrder)
       /\ \A i \in 1..Len(CameraOrder) :
            r.resp.streams[i] = Status(CameraOrder[i], mode)
       /\ r.w.mode = mode
       /\ r.w.queue = queue
       /\ r.w.notified = NoNotes

\* A status listing was written while the cameras are in different modes;
\* no mutating command for all cameras ends that way without a notification.
C13_Witness ==
  /\ conn = "open"
  /\ lastResp = StreamsResp(AllStatus(mode))
  /\ notified = NoNotes
  /\ mode[CameraOrder[1]] # mode[CameraOrder[2]]

\* C14: a mutating command for one registered camera changes at most that
\* camera's mode, notifies only that camera's subscribers, leaves the other
\* cameras' modes and queues as they were, and is answered with that one
\* camera and its resulting mode.
C14_SingleTargetOnly ==
  \A c \in Cameras : \A a \in MutatingActions \cup {<<"LIVE">>} :
    \A line \in {PlainLine(a, <<c>>), StructLine(a, <<c>>)} :
      LET r == DoLine(line, Now)
      IN /\ r.open
         /\ r.w.mode = [mode EXCEPT ![c] = Table(mode[c], Lower(a))]
         /\ \A d \in Cameras \ {c} :
              r.w.queue[d] = queue[d] /\ r.w.notified[d] = <<>>
         /\ \A s \in SubIds \ subscribers[c] : r.w.queue[c][s] = queue[c][s]
         /\ Len(r.w.notified[c]) = (IF r.w.mode[c] # mode[c] THEN 1 ELSE 0)
         /\ r.resp.kind = "streams"
         /\ Len(r.resp.streams) = 1
         /\ r.resp.streams[1].id = c
         /\ r.resp.streams[1].mode = Table(mode[c], Lower(a))

\* A command made the second camera live; the first is in standby and its
\* subscriber received nothing.
C14_Witness ==
  /\ lastResp.kind = "streams"
  /\ lastResp.streams = <<Status(CameraOrder[2], mode)>>
  /\ mode[CameraOrder[2]] = "live" /\ mode[CameraOrder[1]] = "standby"
  /\ Len(notified[CameraOrder[2]]) = 1 /\ notified[CameraOrder[1]] = <<>>
  /\ \E s \in subscribers[CameraOrder[1]] : queue[CameraOrder[1]][s] = <<>>

(***************************************************************************)
(* The subscriber queues of one camera, followed until they are full: the  *)
(* camera's mode is switched while subscribers come, read and go.          *)
(***************************************************************************)
QueueCam == CameraOrder[1]
\* Two subscribers: one whose peer has stopped reading, one that reads.
QueueSubIds == {"slow", "fast"}

QueueInit ==
  /\ SupInit
  /\ mode = [c \in Cameras |-> "standby"]
  /\ subscribers = [c \in Cameras |-> {}]
  /\ queue = [c \in Cameras |-> [s \in QueueSubIds |-> <<>>]]
  /\ notified = NoNotes
  /\ lock = [c \in Cameras |-> 0]
  /\ serverUp = FALSE
  /\ conn = "closed"
  /\ closedBy = "none"
  /\ lastResp = NoResp
  /\ tpc = [k \in Callers |-> "idle"]
  /\ tcall = [k \in Callers |-> <<>>]
  /\ startMode = "standby"
  /\ epc = [s \in QueueSubIds |-> "none"]
  /\ peer = [s \in QueueSubIds |-> "here"]

\* A mode call that also stops the camera's supervisor.
TransitionStopsWorker(c, act) ==
  /\ serverUp
  /\ LET w2 == ApplyAction(act, c, Now)
     IN /\ mode' = w2.mode
        /\ queue' = w2.queue
        /\ notified' = w2.notified
  /\ running' = [running EXCEPT ![c] = FALSE]
  /\ UNCHANGED <<subscribers, lock, serverUp, conn, closedBy, lastResp, tpc, tcall, startMode, epc, peer>>
  /\ UNCHANGED <<proc, live, lpc, lloc, cpc, life>>

\* set_live, set_standby or toggle (lines 195-213) called on the worker,
\* however many events its subscribers have pending.
Transition(c, act) ==
  /\ serverUp
  /\ LET w2 == ApplyAction(act, c, Now)
     IN /\ mode' = w2.mode
        /\ queue' = w2.queue
        /\ notified' = w2.notified
  /\ UNCHANGED <<subscribers, lock, serverUp, conn, closedBy, lastResp, tpc, tcall, startMode, epc, peer>>
  /\ UNCHANGED supVars

\* The places in a queue where a notification is visibly missing.
Gaps(q) == Cardinality({i \in 1..(Len(q) - 1) : q[i].mode = q[i + 1].mode})
\* The newest payload of the queue is not the camera's mode: the next one
\* that is put into it leaves a gap.
Stale(q) == q # <<>> /\ q[Len(q)].mode # mode[QueueCam]

\* api_events, line 523: q.get(), for a queue with at most MaxGaps gaps.
ReadEvent(s) ==
  /\ Gaps(queue[QueueCam][s]) + (IF Stale(queue[QueueCam][s]) THEN 1 ELSE 0) <= MaxGaps
  /\ GetEvent(QueueCam, s)

QueueNext ==
  \/ Startup
  \/ \E act \in MutatingActions : Transition(QueueCam, act)
  \/ Subscribe(QueueCam)
  \/ \E s \in QueueSubIds : Unsubscribe(QueueCam, s)
  \/ ReadEvent("fast")

SpecQueue == QueueInit /\ [][QueueNext]_vars

\* A step that changed the camera's mode put the payload with the new mode
\* into exactly the subscribers' queues that had room.
DeliveredWhereRoom ==
  mode'[QueueCam] # mode[QueueCam] =>
    /\ subscribers' = subscribers
    /\ \A s \in QueueSubIds :
         queue'[QueueCam][s] =
           IF s \in subscribers[QueueCam] /\ Len(queue[QueueCam][s]) < QueueMaxSize
             THEN Append(queue[QueueCam][s], Status(QueueCam, mode'))
             ELSE queue[QueueCam][s]

\* C11: no queue ever holds more than 20 messages; a mode call is possible
\* and completes whatever the queues hold; and each notification is put
\* into every subscriber queue that has room, a full queue losing that one
\* message and nothing else.
C11_NotifyNeverBlocks ==
  /\ [](\A s \in QueueSubIds : Len(queue[QueueCam][s]) <= QueueMaxSize)
  /\ [](serverUp => \A act \in MutatingActions : ENABLED Transition(QueueCam, act))
  /\ [][DeliveredWhereRoom]_vars

\* One subscriber's queue is full and missed the last notification, which
\* another subscriber received.
C11_Witness ==
  \E s1, s2 \in subscribers[QueueCam] :
    /\ Len(queue[QueueCam][s1]) = QueueMaxSize
    /\ queue[QueueCam][s1][QueueMaxSize].mode # mode[QueueCam]
    /\ queue[QueueCam][s2] # <<>>
    /\ Len(queue[QueueCam][s2]) < QueueMaxSize
    /\ Len(notified[QueueCam]) = 1
    /\ queue[QueueCam][s2][Len(queue[QueueCam][s2])] = notified[QueueCam][1]

\* The queue holds the latest transitions in their order: its payloads
\* alternate between live and standby and the newest is the camera's mode.
InStep(q) == Gaps(q) = 0 /\ ~Stale(q)

\* The step drops a notification for subscriber s: the mode changes while
\* the queue of s is full.
DropsFor(s) ==
  mode'[QueueCam] # mode[QueueCam] /\ Len(queue[QueueCam][s]) = QueueMaxSize

\* C19: a subscriber's queue is empty when it subscribes, and a queue that
\* holds the transitions in order (alternating, the newest payload being
\* the current mode) still does after every step that drops nothing for
\* it; so a subscriber that has had nothing dropped since it subscribed
\* always sees the transitions in order, alternating, ending in the current
\* mode.
C19_QueueFollowsTransitions ==
  /\ [][\A s \in QueueSubIds :
          (s \notin subscribers[QueueCam] /\ s \in subscribers'[QueueCam])
            => queue'[QueueCam][s] = <<>>]_vars
  /\ [][\A s \in QueueSubIds :
          (/\ s \in subscribers[QueueCam] /\ s \in subscribers'[QueueCam]
           /\ InStep(queue[QueueCam][s])
           /\ ~DropsFor(s))
            => /\ Gaps(queue'[QueueCam][s]) = 0
               /\ queue'[QueueCam][s] # <<>> =>
                    queue'[QueueCam][s][Len(queue'[QueueCam][s])].mode = mode'[QueueCam]
               /\ \/ queue'[QueueCam][s] = queue[QueueCam][s]
                  \/ /\ queue[QueueCam][s] # <<>>
                     /\ queue'[QueueCam][s] = Tail(queue[QueueCam][s])
                  \/ queue'[QueueCam][s] =
                       Append(queue[QueueCam][s], Status(QueueCam, mode'))]_vars

\* The reading subscriber holds three transitions in order while the other
\* subscriber's queue is full and has missed the last one.
C19_Witness ==
  /\ {"slow", "fast"} \subseteq subscribers[QueueCam]
  /\ Len(queue[QueueCam]["fast"]) = 3
  /\ InStep(queue[QueueCam]["fast"])
  /\ Len(queue[QueueCam]["slow"]) = QueueMaxSize
  /\ Stale(queue[QueueCam]["slow"])

(***************************************************************************)
(* Mode calls on a camera while its supervisor runs: the loop thread, the  *)
(* process and shutdown's stop() take their steps between the calls.       *)
(***************************************************************************)
ModeNext ==
  \/ Startup
  \/ \E c \in SupCams : \E act \in MutatingActions : Transition(c, act)
  \/ /\ \E c \in SupCams :
          \/ LifeStop(c)
          \/ StopStep(c)
          \/ \E t \in Threads : LoopStep(c, t)
          \/ ProcExit(c)
     /\ UNCHANGED appVars

SpecMode == Init /\ [][ModeNext]_vars

\* C16: a step that is a mode call (it changes the mode or what was
\* notified) leaves the supervisor as it was: the running flag, the process
\* handle, the processes alive, the loop thread and stop() are untouched.
C16_ModeCallsLeaveSupervisor ==
  [][(mode' # mode \/ notified' # notified) => UNCHANGED supVars]_vars

\* A mode call made the camera live while its supervised process was alive,
\* and the process is alive still.
C16_Witness ==
  \E c \in SupCams :
    /\ mode[c] = "live"
    /\ Len(notified[c]) = 1
    /\ notified[c][1].standby_ok
    /\ alive(c)
    /\ running[c]

\* The positions of the loop after a failure: the executable was not found
\* (line 127), another exception was handled (line 130), or the process has
\* exited (wait() returned at line 120).
AfterFailure == {"fnf_sleep", "after", "read_call"}

\* C15: while the supervisor is started and stop() has not been called, its
\* loop thread has not ended; and after every failure (a crash of the
\* process, a missing executable, another spawn error) the loop comes to
\* the spawn again, every time.
C15_RetriesForever ==
  /\ [](\A c \in SupCams :
          life[c] = "started" => \E t \in Threads : lpc[c][t] # "none")
  /\ \A c \in SupCams : \A t \in Threads :
       (life[c] = "started" /\ lpc[c][t] \in AfterFailure)
         ~> (lpc[c][t] = "popen" \/ life[c] # "started")

\* The executable was not found: the started supervisor's loop is in the
\* long sleep of line 129, with no process and no handle.
C15_Witness ==
  \E c \in SupCams : \E t \in Threads :
    /\ life[c] = "started" /\ running[c]
    /\ lpc[c][t] = "fnf_sleep"
    /\ proc[c] = None /\ live[c] = {}

\* stop() has been called on the supervisor.
Stopped(c) == life[c] \in {"stopping", "returned", "raised"}
\* The loop has ended and no process of the supervisor is alive.
Quiet(c) == (\A t \in Threads : lpc[c][t] = "none") /\ live[c] = {}

\* The loop thread has ended and stop() has been left: nothing of the
\* supervisor runs any more.
AllEnded(c) == (\A t \in Threads : lpc[c][t] = "none") /\ cpc[c] = "idle"

\* Once stop() has been called, the loop eventually ends and from some
\* point on no process of the supervisor is alive.
StopQuiesces ==
  \A c \in SupCams : [](Stopped(c) => <>[]Quiet(c))

\* C20: after stop() on a started supervisor (start() is not called again)
\* the loop ends and no process of the supervisor stays alive, whatever the
\* loop was doing when stop() was called; so once the loop thread has ended
\* and stop() has been left, no process of the supervisor is alive.
C20_NoProcessLeftBehind ==
  \A c \in SupCams : (Stopped(c) /\ AllEnded(c)) => live[c] = {}

(***************************************************************************)
(* Subscribers coming and going while other threads call set_live,         *)
(* set_standby and toggle on the same camera.  subscribe() (lines          *)
(* 227-230) and unsubscribe() (lines 232-233) take no lock, so their step  *)
(* is possible whoever holds it.                                           *)
(***************************************************************************)
SubsNext ==
  \/ Startup
  \/ \E k \in Callers : \E act \in MutatingActions : CaughtUp /\ CallEnter(k, act)
  \/ \E k \in Callers : ToggleRead(k)
  \/ \E k \in Callers : LockAcquire(k)
  \/ \E k \in Callers : LockedBody(k)
  \/ \E k \in Callers : LockRelease(k)
  \/ NewRound
  \/ Subscribe(ThreadCam)
  \/ \E s \in SubIds : Unsubscribe(ThreadCam, s)
  \/ \E s \in SubIds : GetEvent(ThreadCam, s)

SpecSubs == Init /\ [][SubsNext]_vars

\* C17: the mode is written only by a thread that holds the camera's lock,
\* and the subscriber set is written only under the lock too, so that it is
\* never written while a thread is inside the locked part of set_live or
\* set_standby, where _notify reads it.
C17_WritesUnderLock ==
  /\ [][\A c \in Cameras : mode'[c] # mode[c] => lock[c] # 0]_vars
  /\ [][\A c \in Cameras : subscribers'[c] # subscribers[c] => lock[c] = 0]_vars

(***************************************************************************)
(* api_events (lines 509-534), one connection per queue: the endpoint      *)
(* subscribes and returns the generator; the server runs the generator     *)
(* from one yield to the next while it streams, and closes it where it is  *)
(* suspended when the response ends.  A generator closed at a yield inside *)
(* the try block runs the finally clause; one closed at the first yield    *)
(* (line 517, before the try) or never started does not.                   *)
(***************************************************************************)
SetEpc(k, to) == epc' = [epc EXCEPT ![k] = to]

\* lines 511-514 and 530: the worker is found, q = w.subscribe(), and the
\* response is returned with the generator not yet started.
EvConnect(k) ==
  /\ serverUp
  /\ epc[k] = "none" /\ k \notin subscribers[QueueCam]
  /\ subscribers' = [subscribers EXCEPT ![QueueCam] = @ \cup {k}]
  /\ queue' = [queue EXCEPT ![QueueCam][k] = <<>>]
  /\ SetEpc(k, "subscribed")
  /\ peer' = [peer EXCEPT ![k] = "here"]
  /\ UNCHANGED <<mode, notified, lock, serverUp, conn, closedBy, lastResp, tpc, tcall, startMode>>
  /\ UNCHANGED supVars

\* line 517: the generator starts and yields the current status.
EvStart(k) ==
  /\ epc[k] = "subscribed"
  /\ SetEpc(k, "first")
  /\ UNCHANGED <<mode, subscribers, queue, notified, lock, serverUp, conn, closedBy, lastResp, tpc, tcall, startMode, peer>>
  /\ UNCHANGED supVars

\* The server asks for the next chunk: the generator goes on from its yield
\* to line 520.
EvResume(k) ==
  /\ epc[k] \in {"first", "yielded"}
  /\ SetEpc(k, "loop")
  /\ UNCHANGED <<mode, subscribers, queue, notified, lock, serverUp, conn, closedBy, lastResp, tpc, tcall, startMode, peer>>
  /\ UNCHANGED supVars

\* lines 520-521: if await request.is_disconnected(): break; then the
\* finally clause, line 528: w.unsubscribe(q).
EvLoop(k) ==
  /\ epc[k] = "loop"
  /\ IF peer[k] = "gone"
       THEN /\ subscribers' = [subscribers EXCEPT ![QueueCam] = @ \ {k}]
            /\ queue' = [queue EXCEPT ![QueueCam][k] = <<>>]
            /\ SetEpc(k, "closed")
       ELSE /\ SetEpc(k, "get")
            /\ UNCHANGED <<subscribers, queue>>
  /\ UNCHANGED <<mode, notified, lock, serverUp, conn, closedBy, lastResp, tpc, tcall, startMode, peer>>
  /\ UNCHANGED supVars

\* lines 523-524: q.get() returns a payload, which is yielded.
EvGet(k) ==
  /\ epc[k] = "get"
  /\ queue[QueueCam][k] # <<>>
  /\ queue' = [queue EXCEPT ![QueueCam][k] = Tail(@)]
  /\ SetEpc(k, "yielded")
  /\ UNCHANGED <<mode, subscribers, notified, lock, serverUp, conn, closedBy, lastResp, tpc, tcall, startMode, peer>>
  /\ UNCHANGED supVars

\* lines 525-526: wait_for times out after 15 s; a keepalive is yielded.
EvTimeout(k) ==
  /\ epc[k] = "get"
  /\ queue[QueueCam][k] = <<>>
  /\ SetEpc(k, "yielded")
  /\ UNCHANGED <<mode, subscribers, queue, notified, lock, serverUp, conn, closedBy, lastResp, tpc, tcall, startMode, peer>>
  /\ UNCHANGED supVars

\* The peer disconnects, at any point of the stream.
EvPeerGone(k) ==
  /\ epc[k] \in {"subscribed", "first", "loop", "get", "yielded"}
  /\ peer[k] = "here"
  /\ peer' = [peer EXCEPT ![k] = "gone"]
  /\ UNCHANGED <<mode, subscribers, queue, notified, lock, serverUp, conn, closedBy, lastResp, tpc, tcall, startMode, epc>>
  /\ UNCHANGED supVars

\* The positions inside the try block of lines 518-528.
InTry == {"get", "yielded"}

\* The response to a peer that is gone ends: the generator is closed where
\* it is suspended.  Inside the try block the finally clause runs (line
\* 528); at the first yield, or not yet started, nothing of it runs.
EvClose(k) ==
  /\ peer[k] = "gone"
  /\ epc[k] \in {"subscribed", "first"} \cup InTry
  /\ IF epc[k] \in InTry
       THEN /\ subscribers' = [subscribers EXCEPT ![QueueCam] = @ \ {k}]
            /\ queue' = [queue EXCEPT ![QueueCam][k] = <<>>]
       ELSE UNCHANGED <<subscribers, queue>>
  /\ SetEpc(k, "closed")
  /\ UNCHANGED <<mode, notified, lock, serverUp, conn, closedBy, lastResp, tpc, tcall, startMode, peer>>
  /\ UNCHANGED supVars

\* The request is over; the next connection may use the released queue.
EvForget(k) ==
  /\ epc[k] = "closed" /\ k \notin subscribers[QueueCam]
  /\ SetEpc(k, "none")
  /\ peer' = [peer EXCEPT ![k] = "here"]
  /\ UNCHANGED <<mode, subscribers, queue, notified, lock, serverUp, conn, closedBy, lastResp, tpc, tcall, startMode>>
  /\ UNCHANGED supVars

EventsNext ==
  \/ Startup
  \/ \E act \in MutatingActions : CaughtUp /\ Transition(QueueCam, act)
  \/ \E k \in QueueSubIds : EvConnect(k)
  \/ \E k \in QueueSubIds : EvStart(k)
  \/ \E k \in QueueSubIds : EvResume(k)
  \/ \E k \in QueueSubIds : EvLoop(k)
  \/ \E k \in QueueSubIds : EvGet(k)
  \/ \E k \in QueueSubIds : EvTimeout(k)
  \/ \E k \in QueueSubIds : EvPeerGone(k)
  \/ \E k \in QueueSubIds : EvClose(k)
  \/ \E k \in QueueSubIds : EvForget(k)

SpecEvents == QueueInit /\ [][EventsNext]_vars

\* C18: a subscriber handle is removed from the camera's subscriber set
\* once its peer has disconnected, wherever the stream was: when the
\* response has ended, the handle is no longer in the set.
C18_HandleReleased ==
  \A k \in QueueSubIds : epc[k] = "closed" => k \notin subscribers[QueueCam]
====
